---- MODULE Spec2Model ----
(***************************************************************************)
(* Model of pears.pears (src/pears/pears.py): the construction of an n x n *)
(* pairs plot.  A run is one call of pears(); the state is the call's      *)
(* arguments, its local variables, the grid of panels returned by          *)
(* plt.subplots, the commands issued to the panels so far and the calls    *)
(* made to the density estimator.                                          *)
(*                                                                         *)
(* Real numbers are fixed point: axis limits are in hundredths, sigma      *)
(* levels are in halves (1 = 0.5 sigma), probability masses and contour    *)
(* thresholds are in millionths.  Panels are <<row, column>>, 0-based as   *)
(* in the source; Python lists are 1-based sequences, so list[p] of the    *)
(* source is seq[p + 1] here.                                              *)
(***************************************************************************)
EXTENDS Integers, Sequences, FiniteSets, TLC

VARIABLES
    dataset,         \* [is_dict, keys, data]: the indexable dataset
    indices,         \* [given, val]: argument `indices`, resolved at 182-186
    labels,          \* [given, val]: argument `labels`
    truths,          \* [given, val]: argument `truths`
    annotate,        \* argument `annotate`
    scatter,         \* argument `scatter`
    xlim_quantiles,  \* argument `xlim_quantiles`, in percent; <<>> is None
    ylim_quantiles,  \* argument `ylim_quantiles`, in percent; <<>> is None
    kde_levels,      \* argument `kde_levels`, in halves of a sigma
    levels,          \* local `levels` (line 180), in millionths
    n,               \* local `n` (line 190); 0 before it is assigned
    i,               \* loop variable of line 202
    j,               \* loop variable of line 233
    pc,              \* position of the call
    grid,            \* "none" | "scalar" | "array": what plt.subplots returned
    ax,              \* the panels: [panel -> panel record]
    log,             \* the commands issued to panels, in order
    kde_log,         \* the calls made to fastKDE.pdf, in order
    error            \* the exception that ended the call, or "none"

vars == <<dataset, indices, labels, truths, annotate, scatter, xlim_quantiles,
          ylim_quantiles, kde_levels, levels, n, i, j, pc, grid, ax, log,
          kde_log, error>>

args == <<dataset, labels, truths, annotate, scatter, xlim_quantiles,
          ylim_quantiles, kde_levels>>

\* Largest number of variables in a dataset.
MaxN == 3

\* plt.MaxNLocator(4)
MaxTicks == 4

----------------------------------------------------------------------------
(* Inputs *)

\* The samples stored under key k: three samples per variable, unsorted.
Samples(k) == << (3 * k + 2) % 7, (5 * k + 1) % 7, (k * k + 3) % 7 >>

\* dataset.keys() of a dict of s variables, in insertion order (not sorted).
DictKeys(s) == [p \in 1..s |-> 20 + s - p]

\* np.arange(dataset.shape[0]) of an array of s variables.
ArrayKeys(s) == [p \in 1..s |-> p - 1]

MkDataset(isd, s) ==
    LET ks == IF isd THEN DictKeys(s) ELSE ArrayKeys(s)
    IN  [is_dict |-> isd, keys |-> ks,
         data |-> [k \in {ks[p] : p \in 1..s} |-> Samples(k)]]

Datasets == { MkDataset(isd, s) : isd \in BOOLEAN, s \in 1..MaxN }

Reverse(s) == [p \in 1..Len(s) |-> s[Len(s) + 1 - p]]

None == [given |-> FALSE, val |-> <<>>]
Some(v) == [given |-> TRUE, val |-> v]

\* Explicit index lists: the keys in reverse, or the first key twice
\* (duplicates are used verbatim).
IndexChoices(d) ==
    { None, Some(Reverse(d.keys)), Some(<<d.keys[1], d.keys[1]>>) }

NumVars(d, ix) == IF ix.given THEN Len(ix.val) ELSE Len(d.keys)

\* truths: None, or a list of values of a length around the number of
\* variables.
TruthChoices(m) ==
    { None } \cup { Some([p \in 1..l |-> 7 * p]) : l \in (m - 1)..(m + 1) }

LabelChoices(m) == { None, Some([p \in 1..m |-> 100 + p]) }

XQuantileChoices == { <<>>, <<25, 75>> }
YQuantileChoices == { <<>>, <<10, 90>> }

\* kde_levels: the default [0.5, 1.0, 1.5, 2.0], [1.0, 3.0], and a list that
\* is not increasing, [2.0, 1.0].
KdeLevelChoices == { <<1, 2, 3, 4>>, <<2, 6>>, <<4, 2>> }

\* z.max() of a 2-D density returned by fastKDE.pdf.
PeakPool == {2, 5}

----------------------------------------------------------------------------
(* Pure functions *)

Min(s) == CHOOSE x \in {s[p] : p \in DOMAIN s} : \A q \in DOMAIN s : x <= s[q]
Max(s) == CHOOSE x \in {s[p] : p \in DOMAIN s} : \A q \in DOMAIN s : x >= s[q]

\* _min_max (lines 9-10), in hundredths.
MinMax(x) == << 100 * Min(x), 100 * Max(x) >>

RECURSIVE Insert(_, _)
Insert(x, s) ==
    IF s = <<>> THEN <<x>>
    ELSE IF x <= Head(s) THEN <<x>> \o s
    ELSE <<Head(s)>> \o Insert(x, Tail(s))

RECURSIVE Sort(_)
Sort(s) == IF s = <<>> THEN <<>> ELSE Insert(Head(s), Sort(Tail(s)))

\* np.quantile(x, q) for one q (percent), linear interpolation between the
\* order statistics around the virtual index q * (N - 1); in hundredths.
Quantile(x, q) ==
    LET s   == Sort(x)
        pos == q * (Len(x) - 1)
        lo  == pos \div 100
        fr  == pos % 100
        hi  == IF lo + 1 <= Len(x) - 1 THEN lo + 1 ELSE lo
    IN  100 * s[lo + 1] + fr * (s[hi + 1] - s[lo + 1])

\* Lines 217-220, 246-249, 253-256: quantiles if the list is truthy, else
\* the range of the data.
AxisLimits(x, q) ==
    IF Len(q) > 0 THEN [k \in 1..Len(q) |-> Quantile(x, q[k])] ELSE MinMax(x)

\* exp(-k^2 / 2) in millionths, for k2 = (2k)^2, k a multiple of 0.5.
ExpNegHalfSq(k2) ==
    CASE k2 = 0  -> 1000000
      [] k2 = 1  -> 882497
      [] k2 = 4  -> 606531
      [] k2 = 9  -> 324652
      [] k2 = 16 -> 135335
      [] k2 = 25 -> 43937
      [] k2 = 36 -> 11109

\* Line 180: 1.0 - np.exp(-0.5 * k ** 2), k in halves, result in millionths.
MassOfSigma(k) == 1000000 - ExpNegHalfSq(k * k)

SigmaLevels(kl) == [q \in 1..Len(kl) |-> MassOfSigma(kl[q])]

\* Line 265: levels=z.max() * levels.
ContourLevelsGlobal(zmax, lv) ==
    LET top == CHOOSE z \in PeakPool : \A y \in PeakPool : z >= y
    IN  [q \in 1..Len(lv) |-> top * lv[q]]
ContourLevels(zmax, lv) == [q \in 1..Len(lv) |-> zmax * lv[q]]

\* matplotlib's contour rejects levels that are not strictly increasing
\* ("Contour levels must be increasing").
Increasing(s) == \A q \in 1..(Len(s) - 1) : s[q] < s[q + 1]

----------------------------------------------------------------------------
(* Panels and commands *)

NewPanel ==
    [axis_on |-> TRUE, curves |-> 0, vlines |-> <<>>, hlines |-> <<>>,
     scatters |-> <<>>, contours |-> <<>>, xlim |-> <<>>, ylim |-> <<>>,
     edge |-> FALSE, annotation |-> <<>>,
     xlabel |-> <<>>, ylabel |-> <<>>,
     xlabel_visible |-> TRUE, ylabel_visible |-> TRUE,
     xticklabels |-> TRUE, yticklabels |-> TRUE, yticks |-> TRUE,
     xlocator |-> 0, ylocator |-> 0,
     xtick_params |-> FALSE, ytick_params |-> FALSE]

Cmd(r, c, op, arg) == [p |-> <<r, c>>, op |-> op, arg |-> arg]

\* The effect of one command on the panel it is issued to.
Exec(panel, op, arg) ==
    CASE op = "axis_off"        -> [panel EXCEPT !.axis_on = FALSE]
      [] op = "plot"            -> [panel EXCEPT !.curves = @ + 1]
      [] op = "axvline"         -> [panel EXCEPT !.vlines = Append(@, arg[1])]
      [] op = "axhline"         -> [panel EXCEPT !.hlines = Append(@, arg[1])]
      [] op = "edge_color"      -> [panel EXCEPT !.edge = TRUE]
      [] op = "set_xlim"        -> [panel EXCEPT !.xlim = arg]
      [] op = "set_ylim"        -> [panel EXCEPT !.ylim = arg]
      [] op = "annotate"        -> [panel EXCEPT !.annotation = arg]
      [] op = "scatter"         -> [panel EXCEPT !.scatters = Append(@, arg)]
      [] op = "contour"         -> [panel EXCEPT !.contours = Append(@, arg)]
      [] op = "ylocator"        -> [panel EXCEPT !.ylocator = arg[1]]
      [] op = "xlocator"        -> [panel EXCEPT !.xlocator = arg[1]]
      [] op = "set_ylabel"      -> [panel EXCEPT !.ylabel = arg]
      [] op = "set_xlabel"      -> [panel EXCEPT !.xlabel = arg]
      [] op = "ytick_params"    -> [panel EXCEPT !.ytick_params = TRUE]
      [] op = "xtick_params"    -> [panel EXCEPT !.xtick_params = TRUE]
      [] op = "yticklabels_off" -> [panel EXCEPT !.yticklabels = FALSE]
      [] op = "xticklabels_off" -> [panel EXCEPT !.xticklabels = FALSE]
      [] op = "yticks_off"      -> [panel EXCEPT !.yticks = FALSE]
      [] op = "xlabel_hide"     -> [panel EXCEPT !.xlabel_visible = FALSE]
      [] op = "ylabel_hide"     -> [panel EXCEPT !.ylabel_visible = FALSE]

RECURSIVE Run(_, _)
Run(a, cmds) ==
    IF cmds = <<>> THEN a
    ELSE LET c == Head(cmds)
         IN  Run([a EXCEPT ![c.p] = Exec(@, c.op, c.arg)], Tail(cmds))

\* dataset[indices[p]]
Series(p) == dataset.data[indices.val[p + 1]]

\* labels[i] if labels is not None else indices[i]   (line 226)
AnnotLabel(p) == IF labels.given THEN labels.val[p + 1] ELSE indices.val[p + 1]

\* labels[i] if labels else indices[i]   (lines 280, 296)
AxisLabel(p) ==
    IF labels.given /\ Len(labels.val) > 0 THEN labels.val[p + 1]
    ELSE indices.val[p + 1]

When(cond, cmds) == IF cond THEN cmds ELSE <<>>

\* np.arange(i + 1, n) starts at i + 1   (line 205)
FirstUpperSkip(r) == r + 2
FirstUpper(r) == r + 1

\* Lines 205-206.
SuppressCmds(r) ==
    [k \in 1..(n - FirstUpper(r)) |-> Cmd(r, FirstUpper(r) + k - 1, "axis_off", <<>>)]

\* Lines 210-230, after the 1-D density is estimated.
DiagCmds(r) ==
    <<Cmd(r, r, "plot", <<>>)>>
    \o When(truths.given, <<Cmd(r, r, "axvline", <<truths.val[r + 1]>>)>>)
    \o <<Cmd(r, r, "edge_color", <<>>),
         Cmd(r, r, "set_xlim", AxisLimits(Series(r), xlim_quantiles))>>
    \o When(annotate, <<Cmd(r, r, "annotate", <<AnnotLabel(r)>>)>>)

\* Lines 235-260: everything under `if scatter:`.
ScatterCmds(r, c) ==
    When(scatter,
         <<Cmd(r, c, "scatter", <<indices.val[c + 1], indices.val[r + 1]>>)>>
         \o When(truths.given,
                 <<Cmd(r, c, "axvline", <<truths.val[c + 1]>>),
                   Cmd(r, c, "axhline", <<truths.val[r + 1]>>)>>)
         \o <<Cmd(r, c, "set_xlim", AxisLimits(Series(c), xlim_quantiles)),
              Cmd(r, c, "set_ylim", AxisLimits(Series(r), ylim_quantiles)),
              Cmd(r, c, "edge_color", <<>>)>>)

\* Line 265.
ContourCmd(r, c, zmax) == Cmd(r, c, "contour", ContourLevels(zmax, levels))

\* Lines 235-265 for one lower panel whose 2-D density has peak zmax.
LowerCmdsContourFirst(r, c, zmax) == <<ContourCmd(r, c, zmax)>> \o ScatterCmds(r, c)
LowerCmds(r, c, zmax) == ScatterCmds(r, c) \o <<ContourCmd(r, c, zmax)>>

\* Lines 270-316 for one panel of row r.
TickCmdsByColumn(r, c) ==
    <<Cmd(r, c, "ylocator", <<MaxTicks>>), Cmd(r, c, "xlocator", <<MaxTicks>>)>>
    \o (IF c = 0
        THEN When(r # c, <<Cmd(r, c, "set_ylabel", <<AxisLabel(r)>>)>>)
             \o <<Cmd(r, c, "ytick_params", <<>>)>>
        ELSE <<Cmd(r, c, "yticklabels_off", <<>>)>>)
    \o (IF c = n - 1
        THEN <<Cmd(r, c, "set_xlabel", <<AxisLabel(c)>>),
               Cmd(r, c, "xtick_params", <<>>)>>
        ELSE <<Cmd(r, c, "xticklabels_off", <<>>)>>)
    \o When(r = c,
            When(c # n - 1, <<Cmd(r, c, "xticklabels_off", <<>>),
                              Cmd(r, c, "xlabel_hide", <<>>)>>)
            \o <<Cmd(r, c, "yticks_off", <<>>),
                 Cmd(r, c, "yticklabels_off", <<>>),
                 Cmd(r, c, "ylabel_hide", <<>>)>>)
TickCmds(r, c) ==
    <<Cmd(r, c, "ylocator", <<MaxTicks>>), Cmd(r, c, "xlocator", <<MaxTicks>>)>>
    \o (IF c = 0
        THEN When(r # c, <<Cmd(r, c, "set_ylabel", <<AxisLabel(r)>>)>>)
             \o <<Cmd(r, c, "ytick_params", <<>>)>>
        ELSE <<Cmd(r, c, "yticklabels_off", <<>>)>>)
    \o (IF r = n - 1
        THEN <<Cmd(r, c, "set_xlabel", <<AxisLabel(c)>>),
               Cmd(r, c, "xtick_params", <<>>)>>
        ELSE <<Cmd(r, c, "xticklabels_off", <<>>)>>)
    \o When(r = c,
            When(c # n - 1, <<Cmd(r, c, "xticklabels_off", <<>>),
                              Cmd(r, c, "xlabel_hide", <<>>)>>)
            \o <<Cmd(r, c, "yticks_off", <<>>),
                 Cmd(r, c, "yticklabels_off", <<>>),
                 Cmd(r, c, "ylabel_hide", <<>>)>>)

\* Lines 267-316: the panels of row r, columns from c upwards.
RECURSIVE TickRowFromTransposed(_, _)
TickRowFromTransposed(r, c) ==
    IF c >= n THEN <<>>
    ELSE [q \in 1..Len(TickCmds(r, c)) |->
             [TickCmds(r, c)[q] EXCEPT !.p = <<c, r>>]]
         \o TickRowFromTransposed(r, c + 1)
RECURSIVE TickRowFrom(_, _)
TickRowFrom(r, c) ==
    IF c >= n THEN <<>> ELSE TickCmds(r, c) \o TickRowFrom(r, c + 1)

Panels(m) == (0..(m - 1)) \X (0..(m - 1))

KdeCall(r, c, ok, peak) == [p |-> <<r, c>>, ok |-> ok, peak |-> peak]

----------------------------------------------------------------------------
(* The call *)

Init ==
    /\ dataset \in Datasets
    /\ indices \in IndexChoices(dataset)
    /\ labels \in LabelChoices(NumVars(dataset, indices))
    /\ truths \in TruthChoices(NumVars(dataset, indices))
    /\ annotate \in BOOLEAN
    /\ scatter \in BOOLEAN
    /\ xlim_quantiles \in XQuantileChoices
    /\ ylim_quantiles \in YQuantileChoices
    /\ kde_levels \in KdeLevelChoices
    /\ levels = <<>>
    /\ n = 0
    /\ i = 0
    /\ j = 0
    /\ pc = "start"
    /\ grid = "none"
    /\ ax = <<>>
    /\ log = <<>>
    /\ kde_log = <<>>
    /\ error = "none"

Fail(e) == pc' = "failed" /\ error' = e

\* Lines 180-190: the sigma levels become probability masses, the indices
\* are resolved and counted.
ResolveIndices ==
    /\ pc = "start"
    /\ levels' = SigmaLevels(kde_levels)
    /\ indices' = IF indices.given THEN indices ELSE Some(dataset.keys)
    /\ n' = Len(indices'.val)
    /\ pc' = "check"
    /\ UNCHANGED <<args, i, j, grid, ax, log, kde_log, error>>

\* Lines 192-193: assert len(truths) == n.
CheckTruthsLate ==
    /\ pc = "check"
    /\ IF truths.given /\ Len(truths.val) # n
       THEN /\ Fail("AssertionError")
            /\ grid' = IF n = 1 THEN "scalar" ELSE "array"
            /\ ax' = [p \in Panels(n) |-> NewPanel]
       ELSE pc' = "subplots" /\ UNCHANGED <<error, grid, ax>>
    /\ UNCHANGED <<args, indices, levels, n, i, j, log, kde_log>>
CheckTruths ==
    /\ pc = "check"
    /\ IF truths.given /\ Len(truths.val) # n
       THEN Fail("AssertionError")
       ELSE pc' = "subplots" /\ UNCHANGED error
    /\ UNCHANGED <<args, indices, levels, n, i, j, grid, ax, log, kde_log>>

\* Lines 195-200: plt.subplots(n, n) squeezes its result: one Axes object
\* when n = 1, an n x n array otherwise.
Subplots ==
    /\ pc = "subplots"
    /\ grid' = IF n = 1 THEN "scalar" ELSE "array"
    /\ ax' = [p \in Panels(n) |-> NewPanel]
    /\ i' = 0
    /\ pc' = "suppress"
    /\ UNCHANGED <<args, indices, levels, n, j, log, kde_log, error>>

\* Lines 205-206: the upper panels of row i are turned off.  With n = 1 the
\* loop is empty and ax is not subscripted.
SuppressUpper ==
    /\ pc = "suppress"
    /\ ax' = Run(ax, SuppressCmds(i))
    /\ log' = log \o SuppressCmds(i)
    /\ pc' = "diag"
    /\ UNCHANGED <<args, indices, levels, n, i, j, grid, kde_log, error>>

\* Lines 209-230, the 1-D density being estimated: the diagonal panel of row
\* i.  A single Axes object is not subscriptable: ax[i, i] raises TypeError.
Diagonal ==
    /\ pc = "diag"
    /\ kde_log' = Append(kde_log, KdeCall(i, i, TRUE, 0))
    /\ IF grid = "scalar"
       THEN /\ Fail("TypeError")
            /\ UNCHANGED <<ax, log, j>>
       ELSE /\ ax' = Run(ax, DiagCmds(i))
            /\ log' = log \o DiagCmds(i)
            /\ j' = 0
            /\ pc' = IF i > 0 THEN "lower" ELSE "ticks"
            /\ UNCHANGED error
    /\ UNCHANGED <<args, indices, levels, n, i, grid>>

\* Line 209, fastKDE.pdf raising: nothing catches it.
DiagonalKdeFailRetry ==
    /\ pc = "diag"
    /\ kde_log' = kde_log \o <<KdeCall(i, i, FALSE, 0), KdeCall(i, i, FALSE, 0)>>
    /\ Fail("EstimationFailure")
    /\ UNCHANGED <<args, indices, levels, n, i, j, grid, ax, log>>
DiagonalKdeFail ==
    /\ pc = "diag"
    /\ kde_log' = Append(kde_log, KdeCall(i, i, FALSE, 0))
    /\ Fail("EstimationFailure")
    /\ UNCHANGED <<args, indices, levels, n, i, j, grid, ax, log>>

\* Lines 233-265 for the lower panel (i, j): scatter, density, contour.
Lower ==
    /\ pc = "lower"
    /\ \E zmax \in PeakPool :
          /\ Increasing(ContourLevels(zmax, levels))
          /\ kde_log' = Append(kde_log, KdeCall(i, j, TRUE, zmax))
          /\ ax' = Run(ax, LowerCmds(i, j, zmax))
          /\ log' = log \o LowerCmds(i, j, zmax)
    /\ j' = j + 1
    /\ pc' = IF j + 1 < i THEN "lower" ELSE "ticks"
    /\ UNCHANGED <<args, indices, levels, n, i, grid, error>>

\* Line 263, fastKDE.pdf raising after the panel's scatter was drawn.
LowerKdeFail ==
    /\ pc = "lower"
    /\ kde_log' = Append(kde_log, KdeCall(i, j, FALSE, 0))
    /\ ax' = Run(ax, ScatterCmds(i, j))
    /\ log' = log \o ScatterCmds(i, j)
    /\ Fail("EstimationFailure")
    /\ UNCHANGED <<args, indices, levels, n, i, j, grid>>

\* Line 265, contour raising ValueError on levels that are not increasing:
\* the command is issued and draws nothing.
LowerContourFail ==
    /\ pc = "lower"
    /\ \E zmax \in PeakPool :
          /\ ~Increasing(ContourLevels(zmax, levels))
          /\ kde_log' = Append(kde_log, KdeCall(i, j, TRUE, zmax))
          /\ ax' = Run(ax, ScatterCmds(i, j))
          /\ log' = log \o LowerCmds(i, j, zmax)
    /\ Fail("ValueError")
    /\ UNCHANGED <<args, indices, levels, n, i, j, grid>>

\* Lines 267-316: ticks and labels of every panel of row i; then the next
\* row (line 202).
TickRow ==
    /\ pc = "ticks"
    /\ ax' = Run(ax, TickRowFrom(i, 0))
    /\ log' = log \o TickRowFrom(i, 0)
    /\ i' = i + 1
    /\ pc' = IF i + 1 < n THEN "suppress" ELSE "return"
    /\ UNCHANGED <<args, indices, levels, n, j, grid, kde_log, error>>

\* Line 318.
Return ==
    /\ pc = "return"
    /\ pc' = "done"
    /\ UNCHANGED <<args, indices, levels, n, i, j, grid, ax, log, kde_log, error>>

Next ==
    \/ ResolveIndices
    \/ CheckTruths
    \/ Subplots
    \/ SuppressUpper
    \/ Diagonal
    \/ DiagonalKdeFail
    \/ Lower
    \/ LowerKdeFail
    \/ LowerContourFail
    \/ TickRow
    \/ Return

Spec == Init /\ [][Next]_vars

----------------------------------------------------------------------------
(* Properties *)

IsDiag(p) == p[1] = p[2]
IsLower(p) == p[1] > p[2]
IsUpper(p) == p[1] < p[2]
Rendered(m) == { p \in Panels(m) : p[2] <= p[1] }

\* The positions of the log at which command op was issued to panel p.
Issued(p, op) == { k \in DOMAIN log : log[k].p = p /\ log[k].op = op }

\* The number of variables the call plots, known from its arguments.
Resolved == NumVars(dataset, indices)

TruthsMismatch == truths.given /\ Len(truths.val) # Resolved

\* The label of the variable at position q of the index list.
VarLabel(q) == IF labels.given THEN labels.val[q + 1] ELSE indices.val[q + 1]

\* The processing order of the rendered panels: rows ascending; within a
\* row the diagonal, then the lower columns ascending.
Precedes(p, q) ==
    \/ p[1] < q[1]
    \/ /\ p[1] = q[1]
       /\ \/ IsDiag(p) /\ IsLower(q)
          \/ IsLower(p) /\ IsLower(q) /\ p[2] < q[2]

\* The peak of the 2-D density estimated for panel p.
PeakOf(p) ==
    kde_log[CHOOSE k \in DOMAIN kde_log : kde_log[k].p = p /\ kde_log[k].ok].peak

\* C1: with a single variable, once its 1-D density is estimated the call
\* does not fail and the only panel, (0,0), holds the marginal curve; once
\* the call is over it has returned.
C1_SingleVariableCompletes ==
    (n = 1 /\ \E k \in DOMAIN kde_log : kde_log[k].ok)
        => /\ pc # "failed"
           /\ DOMAIN ax = {<<0, 0>>}
           /\ ax[<<0, 0>>].curves = 1

\* C2: for n >= 2 the grid has exactly n x n panels; no upper panel (i < j)
\* ever receives a marginal curve, scatter, contour, reference line, axis
\* limit or axis label, and when the call returns every upper panel is
\* turned off.
ContentOps ==
    {"plot", "scatter", "contour", "axvline", "axhline", "set_xlim",
     "set_ylim", "set_xlabel", "set_ylabel", "annotate"}
C2_UpperPanelsSuppressed ==
    (n >= 2 /\ grid # "none") =>
        /\ DOMAIN ax = Panels(n)
        /\ Cardinality(DOMAIN ax) = n * n
        /\ \A k \in DOMAIN log : IsUpper(log[k].p) => log[k].op \notin ContentOps
        /\ \A p \in Panels(n) : IsUpper(p) =>
              /\ ax[p].curves = 0
              /\ ax[p].scatters = <<>> /\ ax[p].contours = <<>>
              /\ ax[p].vlines = <<>> /\ ax[p].hlines = <<>>
              /\ ax[p].xlim = <<>> /\ ax[p].ylim = <<>>
              /\ ax[p].xlabel = <<>> /\ ax[p].ylabel = <<>>
              /\ (pc = "done" => ~ax[p].axis_on)
C2_Witness ==
    /\ pc = "done" /\ n >= 3
    /\ ~ax[<<0, 2>>].axis_on /\ ~ax[<<1, 2>>].axis_on /\ ~ax[<<0, 1>>].axis_on

\* C3: when truths is given with a length other than the number of resolved
\* indices, the call never gets past the length check: no grid is allocated,
\* no density is estimated, no command is issued, and the call ends only by
\* the assertion failing.
C3_TruthsMismatchFailsFirst ==
    TruthsMismatch =>
        /\ pc \in {"start", "check", "failed"}
        /\ (pc = "failed" => error = "AssertionError")
        /\ grid = "none"
        /\ DOMAIN ax = {}
        /\ log = <<>>
        /\ kde_log = <<>>
C3_Witness ==
    /\ pc = "failed" /\ error = "AssertionError"
    /\ truths.given /\ Len(truths.val) = 2 /\ n = 3

\* C4: when the call returns, every rendered panel of column j has the
\* x-limits the axis range policy gives for variable j, and every lower
\* panel of row i has the y-limits the policy gives for variable i,
\* whatever the scatter flag and the quantile settings.
C4_AxisLimitsPerVariable ==
    pc = "done" =>
        \A p \in Rendered(n) :
            /\ ax[p].xlim = AxisLimits(Series(p[2]), xlim_quantiles)
            /\ IsLower(p) => ax[p].ylim = AxisLimits(Series(p[1]), ylim_quantiles)

\* C5: when the call returns with truths given, every diagonal panel (i,i)
\* holds exactly one vertical line, at truths[i], and every lower panel
\* (i,j) exactly one vertical line at truths[j] and one horizontal line at
\* truths[i], whatever the scatter flag; without truths no panel holds a
\* reference line.
C5_ReferenceLines ==
    pc = "done" =>
        \A p \in Panels(n) :
            IF truths.given /\ IsDiag(p)
            THEN ax[p].vlines = <<truths.val[p[1] + 1]>> /\ ax[p].hlines = <<>>
            ELSE IF truths.given /\ IsLower(p)
            THEN /\ ax[p].vlines = <<truths.val[p[2] + 1]>>
                 /\ ax[p].hlines = <<truths.val[p[1] + 1]>>
            ELSE ax[p].vlines = <<>> /\ ax[p].hlines = <<>>

\* C6: every contour command goes to a lower panel and hands over one
\* threshold per sigma level, in the caller's order: the mass of the level
\* times the peak of the density estimated for that very panel; strictly
\* increasing sigma levels give strictly increasing thresholds.
C6_ContourThresholds ==
    \A k \in DOMAIN log :
        log[k].op = "contour" =>
            LET p  == log[k].p
                th == log[k].arg
            IN  /\ IsLower(p)
                /\ Len(th) = Len(kde_levels)
                /\ \A q \in 1..Len(kde_levels) :
                      th[q] = PeakOf(p) * MassOfSigma(kde_levels[q])
                /\ Increasing(kde_levels) => Increasing(th)
C6_Witness ==
    /\ pc = "done" /\ n >= 3 /\ Len(kde_levels) >= 2 /\ Increasing(kde_levels)
    /\ PeakOf(<<1, 0>>) # PeakOf(<<2, 0>>)
    /\ PeakOf(<<2, 0>>) # PeakOf(<<2, 1>>)
    /\ ax[<<2, 1>>].contours # ax[<<2, 0>>].contours

\* C7: a lower panel never holds more than one contour set and holds exactly
\* one when the call returns, with or without scatter; with scatter the
\* panel's scatter command is issued, and before its contour command.
C7_ContourAfterScatter ==
    \A p \in DOMAIN ax :
        IsLower(p) =>
            /\ Cardinality(Issued(p, "contour")) <= 1
            /\ Len(ax[p].contours) <= 1
            /\ \A a \in Issued(p, "scatter"), b \in Issued(p, "contour") : a < b
            /\ pc = "done" =>
                  /\ Cardinality(Issued(p, "contour")) = 1
                  /\ Len(ax[p].contours) = 1
                  /\ Cardinality(Issued(p, "scatter")) = (IF scatter THEN 1 ELSE 0)
C7_Witness ==
    /\ pc = "done" /\ n >= 3 /\ scatter
    /\ Len(ax[<<2, 1>>].scatters) = 1 /\ Len(ax[<<2, 1>>].contours) = 1
C7_WitnessNoScatter ==
    /\ pc = "done" /\ n >= 3 /\ ~scatter
    /\ ax[<<2, 1>>].scatters = <<>> /\ Len(ax[<<2, 1>>].contours) = 1

\* C8: when the call returns with n >= 2, a rendered panel (i,j) shows x
\* tick labels, and has its x-axis label set, exactly if i = n-1; it shows y
\* tick labels, and has its y-axis label set (to the label of variable i),
\* exactly if j = 0 and i # j; a diagonal panel has no y ticks and no
\* visible y label, and none but the last has a visible x label.
C8_TickAndLabelRules ==
    (pc = "done" /\ n >= 2) =>
        \A p \in Rendered(n) :
            /\ ax[p].xticklabels <=> (p[1] = n - 1)
            /\ (ax[p].xlabel # <<>>) <=> (p[1] = n - 1)
            /\ ax[p].yticklabels <=> (p[2] = 0 /\ p[1] # p[2])
            /\ ax[p].ylabel =
                  (IF p[2] = 0 /\ p[1] # p[2] THEN <<VarLabel(p[1])>> ELSE <<>>)
            /\ IsDiag(p) =>
                  /\ ~ax[p].yticks
                  /\ ~ax[p].ylabel_visible
                  /\ ax[p].xlabel_visible <=> (p[1] = n - 1)
C8_Witness ==
    /\ pc = "done" /\ n >= 3 /\ labels.given
    /\ ax[<<2, 0>>].ylabel = <<103>> /\ ax[<<2, 1>>].xlabel = <<102>>
    /\ ~ax[<<1, 1>>].xticklabels /\ ax[<<2, 2>>].xticklabels

\* C9, as stated: once a command has been issued to a different panel, no
\* further command is issued to an earlier panel.
C9_PanelsNeverRevisited ==
    \A c \in 2..Len(log) :
        log[c].p # log[c - 1].p => \A a \in 1..(c - 2) : log[a].p # log[c].p

\* C9, amended: rows are never revisited: the rows of the panels commands
\* are issued to never decrease.
C9_RowsNeverRevisited ==
    \A k \in 2..Len(log) : log[k - 1].p[1] <= log[k].p[1]
C9_Witness ==
    /\ pc = "done" /\ n >= 3
    /\ \E a, b \in DOMAIN log : a < b /\ log[a].p[1] = 1 /\ log[b].p[1] = 2

\* C10: when the density estimator fails at a panel, the call ends with that
\* failure, having called the estimator once for the panel; the grid exists,
\* every panel before the failing one in the processing order keeps its
\* curve (diagonal) or its contour and scatter (lower), the failing panel
\* has no curve and no contour, and no command at all has been issued to a
\* panel after it.
C10_EstimationFailurePropagates ==
    (pc = "failed" /\ error = "EstimationFailure") =>
        LET last == kde_log[Len(kde_log)]
            f    == last.p
        IN  /\ ~last.ok
            /\ Cardinality({k \in DOMAIN kde_log : kde_log[k].p = f}) = 1
            /\ ~ENABLED Next
            /\ grid # "none" /\ DOMAIN ax = Panels(n)
            /\ ax[f].curves = 0 /\ ax[f].contours = <<>>
            /\ Issued(f, "plot") = {} /\ Issued(f, "contour") = {}
            /\ \A q \in Rendered(n) :
                  /\ (Precedes(q, f) /\ IsDiag(q)) => ax[q].curves = 1
                  /\ (Precedes(q, f) /\ IsLower(q)) =>
                        /\ Len(ax[q].contours) = 1
                        /\ Len(ax[q].scatters) = (IF scatter THEN 1 ELSE 0)
                  /\ Precedes(f, q) =>
                        /\ ax[q] = NewPanel
                        /\ \A k \in DOMAIN log : log[k].p # q
C10_Witness ==
    /\ pc = "failed" /\ error = "EstimationFailure" /\ n >= 3 /\ scatter
    /\ kde_log[Len(kde_log)].p = <<2, 0>>
    /\ ax[<<1, 0>>].contours # <<>> /\ ax[<<2, 0>>].scatters # <<>>
    /\ ax[<<2, 1>>] = NewPanel

====
